---- MODULE Spec2Model ----
(***************************************************************************)
(* Model of dephell.models.dependency.Dependency: the lazily computed      *)
(* release groups of a dependency node, the memoized group selection       *)
(* (lock / unlock), merge, unapply and copy.                               *)
(*                                                                         *)
(* Python objects that are shared by reference are kept in small heaps:    *)
(* `cons` holds the Constraint objects and `gobj` the tuples of Group      *)
(* objects; a node refers to them through `cref` and `gref`.               *)
(***************************************************************************)
EXTENDS Integers, Sequences, FiniteSets, TLC

(* ---------------------------- bounds ----------------------------------- *)
MaxVer == 4          \* releases are versions 1..MaxVer
MaxChanges == 1      \* number of times the repositories change their data

Versions == 1..MaxVer
\* node 1 is the node the walker built, node 2 the result of copy()
NodeIds == {1, 2}
Sources == {"p1", "p2"}
Repos == {"reg", "vcs"}

(* A dependency of a release is the rank of its str() form in string order *)
pkgB == 2
pkgC == 3

(* ---------------------------- links ------------------------------------ *)
\* rev = "" is "no revision pin"; a registry link has no server and no rev
RegLink == [kind |-> "registry", server |-> "", rev |-> ""]
GitLink(s, r) == [kind |-> "git", server |-> s, rev |-> r]
Links == {RegLink, GitLink("s1", ""), GitLink("s1", "abc123"),
          GitLink("s1", "def456"), GitLink("s2", "")}

IsGit(l) == l.kind = "git"

get_repo(l) == IF IsGit(l) THEN "vcs" ELSE "reg"

(* ---------------------------- constraint ------------------------------- *)
NoSpec == [kind |-> "none", lo |-> 0, hi |-> 0]
GitSpecifier == [kind |-> "git", lo |-> 0, hi |-> 0]
Range(a, b) == [kind |-> "range", lo |-> a, hi |-> b]
\* the version ranges the requirements of the model declare
Ranges == {Range(1, 1), Range(2, MaxVer)}

Satisfies(v, spec) == spec.kind = "range" => (spec.lo <= v /\ v <= spec.hi)

\* Constraint(source, spec): one range contributed by one source
Constraint(s, spec) == [x \in Sources |-> IF x = s THEN spec ELSE NoSpec]

\* Constraint.filter: the releases satisfying every contributed range
Filter(c, rels) == {v \in rels : \A s \in Sources : Satisfies(v, c[s])}

\* Constraint.merge raises MergeError when one source has two different ranges
ConstraintConflict(c, d) ==
    \E s \in Sources : c[s] # NoSpec /\ d[s] # NoSpec /\ c[s] # d[s]

ConstraintMerge(c, d) == [s \in Sources |-> IF c[s] # NoSpec THEN c[s] ELSE d[s]]

\* Constraint.unapply: removing an absent source is a no-op
ConstraintUnapply(c, s) == [c EXCEPT ![s] = NoSpec]

\* Constraint.copy: a new object with the same source -> range mapping
ConstraintCopy(c) == [s \in Sources |-> c[s]]

(* ---------------------------- repositories ----------------------------- *)
\* what a repository says about one version: offered or not, its dependency
\* list, and whether get_releases already delivers that list
Rel(d, k) == [offered |-> TRUE, known |-> k, deps |-> d]
NoRel == [offered |-> FALSE, known |-> FALSE, deps |-> <<>>]

Catalog(f) == [v \in Versions |-> IF v \in DOMAIN f THEN f[v] ELSE NoRel]

\* the releases 1.0 (no dependencies), 1.5 (pkgB), 1.9 (pkgB) and
\* 2.0 (pkgB, pkgC) of the worked example, as versions 1 to 4
ExampleCatalog ==
    Catalog(<<Rel(<<>>, FALSE), Rel(<<pkgB>>, FALSE), Rel(<<pkgB>>, FALSE),
              Rel(<<pkgB, pkgC>>, FALSE)>>)

Catalogs == <<
    Catalog(<<Rel(<<>>, FALSE), Rel(<<pkgB>>, FALSE), Rel(<<pkgB>>, TRUE)>>),
    Catalog(<<Rel(<<pkgB>>, FALSE), Rel(<<>>, FALSE), NoRel>>),
    Catalog(<<NoRel, Rel(<<pkgC, pkgB>>, TRUE), NoRel>>),
    ExampleCatalog >>

NoReleases == [cached |-> FALSE, rel |-> Catalog(<<>>)]

(* ---------------------------- grouping --------------------------------- *)
RECURSIVE Insert(_, _)
Insert(x, s) ==
    IF s = <<>> THEN <<x>>
    ELSE IF x <= Head(s) THEN <<x>> \o s
    ELSE <<Head(s)>> \o Insert(x, Tail(s))

RECURSIVE sorted(_)
sorted(s) == IF s = <<>> THEN <<>> ELSE Insert(Head(s), sorted(Tail(s)))

\* variant: the key joins the dependency list in the order it came
Key_unsorted(deps) == deps

\* key = '|'.join(sorted(map(str, release.dependencies)))
Key(deps) == sorted(deps)

Max(S) == CHOOSE x \in S : \A y \in S : y <= x

Offered(rel) == {v \in Versions : rel[v].offered}

\* groups[key].add(release)
Classes(rel) ==
    {{w \in Offered(rel) : Key(rel[w].deps) = Key(rel[v].deps)} : v \in Offered(rel)}

Min(S) == CHOOSE x \in S : \A y \in S : x <= y

\* variant: the groups are ordered by their oldest release
RECURSIVE SortByMin(_)
SortByMin(cs) ==
    IF cs = {} THEN <<>>
    ELSE LET top == CHOOSE c \in cs : \A d \in cs : Min(d) <= Min(c)
         IN <<top>> \o SortByMin(cs \ {top})

\* sorted(groups.values(), key=max, reverse=True)
RECURSIVE SortByMax(_)
SortByMax(cs) ==
    IF cs = {} THEN <<>>
    ELSE LET top == CHOOSE c \in cs : \A d \in cs : Max(d) <= Max(c)
         IN <<top>> \o SortByMax(cs \ {top})

\* Group(releases=releases, number=number)
Group(releases, number) ==
    [number |-> number, all_releases |-> releases, releases |-> releases]

MakeGroups(rel) ==
    LET ordered == SortByMax(Classes(rel))
    IN [i \in 1..Len(ordered) |-> Group(ordered[i], i - 1)]

\* Group.empty
GroupEmpty(g) == g.releases = {}

\* variant: the groups keep every release, the constraint is not applied
Actualize_nofilter(gs, c) == gs

\* the loop of _actualize_groups
Actualize(gs, c) ==
    [i \in DOMAIN gs |-> [gs[i] EXCEPT !.releases = Filter(c, gs[i].all_releases)]]

(* ---------------------------- state ------------------------------------ *)
VARIABLES
    alive,      \* the nodes the graph walker has constructed so far
    link,       \* Dependency.link
    repo,       \* Dependency.repo: a repository handle
    cref,       \* Dependency.constraint: a reference to a Constraint object
    cons,       \* the Constraint objects: source -> range
    relc,       \* __dict__['all_releases']: the cached release objects
    gref,       \* __dict__['groups']: 0, or a reference to a tuple of groups
    gobj,       \* the tuples of Group objects
    sel,        \* __dict__['group']: Unlocked, Absent (None) or a group number
    catalog,    \* what each repository would answer now
    changes,    \* how often the repositories changed their data
    fetch,      \* the coroutine _fetch_releases_deps of a read of `groups`
    last        \* the last call of the walker and its outcome

vars == <<alive, link, repo, cref, cons, relc, gref, gobj, sel, catalog, changes, fetch,
          last>>

\* no read of `groups` is under way
NoFetch == [pc |-> "idle", node |-> 0, issued |-> {}, done |-> {}, failed |-> {}]

Unlocked == -2
Absent == -1

locked(n) == sel[n] # Unlocked

\* the constraint and the groups a node sees through its references
constraint(n) == cons[cref[n]]
groups(n) == gobj[gref[n]]

\* a call of the walker: the handler, its node and arguments (src, dspec and
\* dlink: the requirement behind the merged node), the node as the call found
\* it (plocked, pcached, plink, prepo), the value returned (group, compat),
\* the exception raised (err), the repository calls made (listed, fetched)
\* and the get_dependencies calls among them that raised (failed)
NoCall == [op |-> "init", node |-> 0, other |-> 0, src |-> "", dlink |-> RegLink,
           dspec |-> NoSpec, plocked |-> FALSE, pcached |-> FALSE, plink |-> RegLink,
           prepo |-> "reg", group |-> Unlocked, compat |-> FALSE, err |-> "",
           listed |-> FALSE, fetched |-> {}, failed |-> {}]

Call(op, n) ==
    [NoCall EXCEPT !.op = op, !.node = n, !.plocked = locked(n), !.pcached = gref[n] # 0,
                   !.plink = link[n], !.prepo = repo[n]]

\* outcomes of the repository calls of one handler: every call succeeds,
\* get_releases fails, or one of the gathered get_dependencies fails
Fails == {"none", "list", "fetch"}

\* a call can only fail where node n would make it: get_releases while the
\* releases are not cached, get_dependencies while the groups are not
CanFail(n, fail) ==
    \/ fail = "none"
    \/ fail = "list" /\ gref[n] = 0 /\ ~relc[n].cached
    \/ fail = "fetch" /\ gref[n] = 0

\* from_requirement: a git link replaces the declared range by GitSpecifier
from_requirement(s, spec, l) ==
    [link |-> l,
     repo |-> get_repo(l),
     constraint |-> Constraint(s, IF IsGit(l) THEN GitSpecifier ELSE spec)]

\* the requirements of the model: a git requirement carries no range
Requirements ==
    {x \in Ranges \X Links : IsGit(x[2]) => x[1] = Range(1, 1)}

\* node 1 is built from a requirement of source p1; the other nodes are
\* made by copy()
Init ==
    \E x \in Requirements :
        LET a == from_requirement("p1", x[1], x[2])
        IN /\ alive = {1}
           /\ link = [n \in NodeIds |-> IF n = 1 THEN a.link ELSE RegLink]
           /\ repo = [n \in NodeIds |-> IF n = 1 THEN a.repo ELSE "reg"]
           /\ cref = [n \in NodeIds |-> n]
           /\ cons = [n \in NodeIds |-> IF n = 1 THEN a.constraint
                                         ELSE [s \in Sources |-> NoSpec]]
           /\ relc = [n \in NodeIds |-> NoReleases]
           /\ gref = [n \in NodeIds |-> 0]
           /\ gobj = [n \in NodeIds |-> <<>>]
           /\ sel = [n \in NodeIds |-> Unlocked]
           /\ catalog = [r \in Repos |-> IF r = "reg" THEN 1 ELSE 2]
           /\ changes = 0
           /\ fetch = NoFetch
           /\ last = NoCall

(* ---------------------------- all_releases / groups -------------------- *)
\* variant: all_releases is a plain property, every read asks the repository
AllReleases_uncached(n, r, fail) ==
    IF fail = "list"
    THEN [err |-> "FetchError", relc |-> relc[n], listed |-> TRUE]
    ELSE [err |-> "", listed |-> TRUE,
          relc |-> IF relc[n].cached THEN relc[n]
                   ELSE [cached |-> TRUE,
                         rel |-> [v \in Versions |->
                                    LET x == Catalogs[catalog[r]][v]
                                    IN IF x.offered /\ ~x.known
                                       THEN [x EXCEPT !.deps = <<>>] ELSE x]]]

\* all_releases: the cached tuple, or repo.get_releases
AllReleases(n, r, fail) ==
    IF relc[n].cached
    THEN [err |-> "", relc |-> relc[n], listed |-> FALSE]
    ELSE IF fail = "list"
    THEN [err |-> "FetchError", relc |-> relc[n], listed |-> TRUE]
    ELSE [err |-> "", listed |-> TRUE,
          relc |-> [cached |-> TRUE,
                    rel |-> [v \in Versions |->
                               LET x == Catalogs[catalog[r]][v]
                               IN IF x.offered /\ ~x.known
                                  THEN [x EXCEPT !.deps = <<>>] ELSE x]]]

\* variant: each list is assigned as its call returns, the ones that
\* returned before the failure stay assigned
FetchReleasesDeps_partial(rc, r, fail) ==
    LET pending == {v \in Versions : rc.rel[v].offered /\ ~rc.rel[v].known}
        now == Catalogs[catalog[r]]
        failed == {v \in pending : fail = "fetch" \/ ~now[v].offered}
    IN [err |-> IF failed # {} THEN "FetchError" ELSE "", fetched |-> pending,
        failed |-> failed,
        relc |-> [rc EXCEPT !.rel = [v \in Versions |->
                     IF v \in pending \ failed
                     THEN [offered |-> TRUE, known |-> TRUE, deps |-> now[v].deps]
                     ELSE rc.rel[v]]]]

\* _fetch_releases_deps: one get_dependencies per release without a
\* dependency list, awaited together; the lists are assigned after all of
\* them returned
FetchReleasesDeps(rc, r, fail) ==
    LET pending == {v \in Versions : rc.rel[v].offered /\ ~rc.rel[v].known}
        now == Catalogs[catalog[r]]
        failed == {v \in pending : fail = "fetch" \/ ~now[v].offered}
    IN IF failed # {}
       THEN [err |-> "FetchError", relc |-> rc, fetched |-> pending, failed |-> failed]
       ELSE [err |-> "", fetched |-> pending, failed |-> {},
             relc |-> [rc EXCEPT !.rel = [v \in Versions |->
                          IF v \in pending
                          THEN [offered |-> TRUE, known |-> TRUE, deps |-> now[v].deps]
                          ELSE rc.rel[v]]]]

\* the cached property `groups` of node n, read while the node holds
\* repository r and constraint c
Groups(n, r, c, fail) ==
    IF gref[n] # 0
    THEN [err |-> "", relc |-> relc[n], computed |-> FALSE, gs |-> groups(n),
          listed |-> FALSE, fetched |-> {}, failed |-> {}]
    ELSE LET a == AllReleases(n, r, fail)
         IN IF a.err # ""
            THEN [err |-> a.err, relc |-> a.relc, computed |-> FALSE, gs |-> <<>>,
                  listed |-> a.listed, fetched |-> {}, failed |-> {}]
            ELSE LET f == FetchReleasesDeps(a.relc, r, fail)
                 IN IF f.err # ""
                    THEN [err |-> f.err, relc |-> f.relc, computed |-> FALSE, gs |-> <<>>,
                          listed |-> a.listed, fetched |-> f.fetched, failed |-> f.failed]
                    ELSE [err |-> "", relc |-> f.relc, computed |-> TRUE,
                          gs |-> Actualize(MakeGroups(f.relc.rel), c),
                          listed |-> a.listed, fetched |-> f.fetched, failed |-> {}]

\* variant: groups is a plain property, its tuple is not kept
StoreGroups_nocache(n, g) ==
    /\ relc' = [relc EXCEPT ![n] = g.relc]
    /\ UNCHANGED <<gref, gobj>>

\* the state after `groups` was read: the caches of node n
StoreGroups(n, g) ==
    /\ relc' = [relc EXCEPT ![n] = g.relc]
    /\ IF g.computed
       THEN gref' = [gref EXCEPT ![n] = n] /\ gobj' = [gobj EXCEPT ![n] = g.gs]
       ELSE UNCHANGED <<gref, gobj>>

\* variant: the newest group is taken without looking at its releases
FirstViable_newest(gs) == IF gs = <<>> THEN Absent ELSE gs[1].number

\* for group in self.groups: if not group.empty: return group
FirstViable(gs) ==
    IF \E i \in DOMAIN gs : ~GroupEmpty(gs[i])
    THEN gs[CHOOSE i \in DOMAIN gs : ~GroupEmpty(gs[i]) /\
                  \A j \in DOMAIN gs : j < i => GroupEmpty(gs[j])].number
    ELSE Absent

(* ---------------------------- handlers --------------------------------- *)
\* variant: a plain property, the groups are scanned on every read
MemoizedGroup_rescan(n) == FirstViable(groups(n))

\* cached_property: a later read returns the value kept in __dict__
MemoizedGroup(n) == sel[n]

\* the cached property `group`
ReadGroup(n, fail) ==
    /\ n \in alive
    /\ CanFail(n, fail)
    /\ IF locked(n)
       THEN /\ last' = [Call("group", n) EXCEPT !.group = MemoizedGroup(n)]
            /\ UNCHANGED <<relc, gref, gobj, sel>>
       ELSE LET g == Groups(n, repo[n], constraint(n), fail)
            IN /\ StoreGroups(n, g)
               /\ IF g.err # ""
                  THEN /\ sel' = sel
                       /\ last' = [Call("group", n) EXCEPT !.err = g.err,
                                     !.listed = g.listed, !.fetched = g.fetched, !.failed = g.failed]
                  ELSE /\ sel' = [sel EXCEPT ![n] = FirstViable(g.gs)]
                       /\ last' = [Call("group", n) EXCEPT !.group = FirstViable(g.gs),
                                     !.listed = g.listed, !.fetched = g.fetched, !.failed = g.failed]
    /\ UNCHANGED <<alive, link, repo, cref, cons, catalog, changes, fetch>>

\* the cached property `groups`, read by the walker
ReadGroups(n, fail) ==
    /\ n \in alive
    /\ CanFail(n, fail)
    /\ LET g == Groups(n, repo[n], constraint(n), fail)
       IN /\ StoreGroups(n, g)
          /\ last' = [Call("groups", n) EXCEPT !.err = g.err, !.listed = g.listed,
                        !.fetched = g.fetched, !.failed = g.failed]
    /\ UNCHANGED <<alive, link, repo, cref, cons, sel, catalog, changes, fetch>>

\* the property `dependencies`: one node per requirement of self.group
ReadDependencies(n, fail) ==
    /\ n \in alive
    /\ CanFail(n, fail)
    /\ IF locked(n)
       THEN /\ last' = [Call("dependencies", n) EXCEPT !.group = MemoizedGroup(n),
                          !.err = IF sel[n] = Absent THEN "AttributeError" ELSE ""]
            /\ UNCHANGED <<relc, gref, gobj, sel>>
       ELSE LET g == Groups(n, repo[n], constraint(n), fail)
            IN /\ StoreGroups(n, g)
               /\ IF g.err # ""
                  THEN /\ sel' = sel
                       /\ last' = [Call("dependencies", n) EXCEPT !.err = g.err,
                                     !.listed = g.listed, !.fetched = g.fetched, !.failed = g.failed]
                  ELSE /\ sel' = [sel EXCEPT ![n] = FirstViable(g.gs)]
                       /\ last' = [Call("dependencies", n) EXCEPT
                                     !.group = FirstViable(g.gs),
                                     !.err = IF FirstViable(g.gs) = Absent
                                             THEN "AttributeError" ELSE "",
                                     !.listed = g.listed, !.fetched = g.fetched, !.failed = g.failed]
    /\ UNCHANGED <<alive, link, repo, cref, cons, catalog, changes, fetch>>

\* variant: compat reads `group`, which memoizes the selection
ReadCompat_lock(n, fail) ==
    /\ n \in alive
    /\ CanFail(n, fail)
    /\ LET g == Groups(n, repo[n], constraint(n), fail)
           chosen == IF locked(n) THEN sel[n] ELSE FirstViable(g.gs)
       IN /\ StoreGroups(n, g)
          /\ sel' = [sel EXCEPT ![n] = IF g.err = "" THEN chosen ELSE sel[n]]
          /\ last' = [Call("compat", n) EXCEPT !.err = g.err,
                        !.compat = (g.err = "" /\ chosen # Absent),
                        !.listed = g.listed, !.fetched = g.fetched, !.failed = g.failed]
    /\ UNCHANGED <<alive, link, repo, cref, cons, catalog, changes, fetch>>

\* the property `compat`
ReadCompat(n, fail) ==
    /\ n \in alive
    /\ CanFail(n, fail)
    /\ IF locked(n)
       THEN /\ IF sel[n] = Absent
               THEN last' = [Call("compat", n) EXCEPT
                               !.err = "AttributeError"]
               ELSE last' = [Call("compat", n) EXCEPT
                               !.compat = ~GroupEmpty(groups(n)[sel[n] + 1])]
            /\ UNCHANGED <<relc, gref, gobj>>
       ELSE LET g == Groups(n, repo[n], constraint(n), fail)
            IN /\ StoreGroups(n, g)
               /\ last' = [Call("compat", n) EXCEPT !.err = g.err,
                             !.compat = (g.err = "" /\ \E i \in DOMAIN g.gs : ~GroupEmpty(g.gs[i])),
                             !.listed = g.listed, !.fetched = g.fetched, !.failed = g.failed]
    /\ UNCHANGED <<alive, link, repo, cref, cons, sel, catalog, changes, fetch>>

\* variant: self.__dict__.pop('group', None)
unlock_pop(n) ==
    /\ n \in alive
    /\ sel' = [sel EXCEPT ![n] = Unlocked]
    /\ last' = Call("unlock", n)
    /\ UNCHANGED <<alive, link, repo, cref, cons, relc, gref, gobj, catalog, changes, fetch>>

\* unlock: del self.__dict__['group']
unlock(n) ==
    /\ n \in alive
    /\ IF locked(n)
       THEN /\ sel' = [sel EXCEPT ![n] = Unlocked]
            /\ last' = Call("unlock", n)
       ELSE /\ sel' = sel
            /\ last' = [Call("unlock", n) EXCEPT !.err = "KeyError"]
    /\ UNCHANGED <<alive, link, repo, cref, cons, relc, gref, gobj, catalog, changes, fetch>>

\* variant: force is not passed, a node without groups is left alone
ForcedGroups_lazy(n, r, c, fail) ==
    IF gref[n] = 0
    THEN [err |-> "", relc |-> relc[n], computed |-> FALSE, gs |-> <<>>,
          listed |-> FALSE, fetched |-> {}, failed |-> {}]
    ELSE Groups(n, r, c, fail)

\* _actualize_groups(force=True): `groups = self.groups` whether or not the
\* groups are cached
ForcedGroups(n, r, c, fail) == Groups(n, r, c, fail)

\* variant: the cached groups are not filtered again
ForceActualize_stale(n, g, c) == StoreGroups(n, g)

\* _actualize_groups(force=True): read `groups`, then filter every group
ForceActualize(n, g, c) ==
    /\ relc' = [relc EXCEPT ![n] = g.relc]
    /\ IF g.err # "" \/ (~g.computed /\ gref[n] = 0)
       THEN UNCHANGED <<gref, gobj>>
       ELSE IF g.computed
       THEN gref' = [gref EXCEPT ![n] = n] /\ gobj' = [gobj EXCEPT ![n] = Actualize(g.gs, c)]
       ELSE gref' = gref /\ gobj' = [gobj EXCEPT ![gref[n]] = Actualize(g.gs, c)]

\* variant: the revisions are compared without asking whether both are set
LinkCheck_anyrev(self, dep) ==
    IF IsGit(self) /\ IsGit(dep)
    THEN IF self.rev # dep.rev
         THEN "links point to different revisions"
         ELSE IF self.server # dep.server
         THEN "links point to different servers"
         ELSE ""
    ELSE ""

\* merge: the checks on two git links
LinkCheck(self, dep) ==
    IF IsGit(self) /\ IsGit(dep)
    THEN IF self.rev # "" /\ dep.rev # "" /\ self.rev # dep.rev
         THEN "links point to different revisions"
         ELSE IF self.server # dep.server
         THEN "links point to different servers"
         ELSE ""
    ELSE ""

\* variant: merge leaves the repository of a git node alone
PreferRepo_keep(n, dep) == repo[n]

\* variant: the revision of self is not looked at
PreferRepo_norev(n, dep) ==
    IF IsGit(link[n]) /\ ~IsGit(dep.link) /\ gref[n] = 0
    THEN dep.repo ELSE repo[n]

\* merge: prefer the non-git repo while self did not use its own
PreferRepo(n, dep) ==
    IF IsGit(link[n]) /\ ~IsGit(dep.link) /\ link[n].rev = "" /\ gref[n] = 0
    THEN dep.repo ELSE repo[n]

\* variant: only an unpinned git dep is taken over
AdoptLink_unpinned(self, dep) == ~IsGit(self) /\ IsGit(dep) /\ dep.rev = ""

\* merge: a non-git self takes the link and the repo of a git dep
AdoptLink(self, dep) == ~IsGit(self) /\ IsGit(dep)

\* merge: what is done to the memoized selection
MergeSelection(n) == sel[n]

\* merge(dep), dep being the node of a requirement (name, spec, l) that the
\* walker built with from_requirement
merge(n, name, spec, l, fail) ==
    /\ n \in alive
    /\ CanFail(n, fail)
    /\ <<spec, l>> \in Requirements
    /\ LET dep == from_requirement(name, spec, l)
           check == LinkCheck(link[n], dep.link)
           adopt == AdoptLink(link[n], dep.link)
           link2 == IF adopt THEN dep.link ELSE link[n]
           repo2 == IF adopt THEN dep.repo ELSE PreferRepo(n, dep)
           c2 == ConstraintMerge(constraint(n), dep.constraint)
           g == ForcedGroups(n, repo2, c2, fail)
           call == [Call("merge", n) EXCEPT !.src = name,
                                  !.dspec = spec, !.dlink = l]
       IN IF check # ""
          THEN /\ last' = [call EXCEPT !.err = check]
               /\ UNCHANGED <<link, repo, cons, relc, gref, gobj, sel>>
          ELSE /\ link' = [link EXCEPT ![n] = link2]
               /\ repo' = [repo EXCEPT ![n] = repo2]
               /\ IF ConstraintConflict(constraint(n), dep.constraint)
                  THEN /\ last' = [call EXCEPT !.err = "MergeError"]
                       /\ UNCHANGED <<cons, relc, gref, gobj, sel>>
                  ELSE /\ cons' = [cons EXCEPT ![cref[n]] = c2]
                       /\ ForceActualize(n, g, c2)
                       /\ sel' = [sel EXCEPT ![n] = IF g.err = "" THEN MergeSelection(n) ELSE sel[n]]
                       /\ last' = [call EXCEPT !.err = g.err, !.listed = g.listed,
                                     !.fetched = g.fetched, !.failed = g.failed]
    /\ UNCHANGED <<alive, cref, catalog, changes, fetch>>

\* variant: unapply without the final unlock
UnapplySelection_keep(n) == sel[n]

\* unapply: what is done to the memoized selection
UnapplySelection(n) == Unlocked

unapply(n, name, fail) ==
    /\ n \in alive
    /\ CanFail(n, fail)
    /\ LET c2 == ConstraintUnapply(constraint(n), name)
           g == ForcedGroups(n, repo[n], c2, fail)
       IN /\ cons' = [cons EXCEPT ![cref[n]] = c2]
          /\ ForceActualize(n, g, c2)
          /\ sel' = [sel EXCEPT ![n] = IF g.err = "" THEN UnapplySelection(n) ELSE sel[n]]
          /\ last' = [Call("unapply", n) EXCEPT !.src = name,
                        !.err = g.err, !.listed = g.listed, !.fetched = g.fetched, !.failed = g.failed]
    /\ UNCHANGED <<alive, link, repo, cref, catalog, changes, fetch>>

\* variant: copy.copy, the new node shares the tuple of groups
CopyRefs_shallow(n, c) == [cref |-> c, gref |-> gref[n]]

\* deepcopy and constraint.copy(): the objects the new node c refers to
CopyRefs(n, c) == [cref |-> c, gref |-> IF gref[n] = 0 THEN 0 ELSE c]

\* copy: the memoized selection of the new node
CopySelection(n) == Unlocked

copy(n) ==
    /\ n \in alive
    /\ alive # NodeIds
    /\ LET c == CHOOSE x \in NodeIds \ alive : \A y \in NodeIds \ alive : x <= y
           refs == CopyRefs(n, c)
       IN /\ alive' = alive \cup {c}
          /\ link' = [link EXCEPT ![c] = link[n]]
          /\ repo' = [repo EXCEPT ![c] = repo[n]]
          /\ relc' = [relc EXCEPT ![c] = relc[n]]
          /\ cref' = [cref EXCEPT ![c] = refs.cref]
          /\ cons' = [cons EXCEPT ![c] = ConstraintCopy(constraint(n))]
          /\ gref' = [gref EXCEPT ![c] = refs.gref]
          /\ gobj' = [gobj EXCEPT ![c] = IF gref[n] = 0 THEN <<>> ELSE groups(n)]
          /\ sel' = [sel EXCEPT ![c] = CopySelection(n)]
          /\ last' = [Call("copy", n) EXCEPT !.other = c]
    /\ UNCHANGED <<catalog, changes, fetch>>

\* every repository starts to answer with other releases and dependency lists
RepoChange ==
    /\ changes < MaxChanges
    /\ catalog' = [r \in Repos |-> (catalog[r] % Len(Catalogs)) + 1]
    /\ changes' = changes + 1
    /\ last' = [NoCall EXCEPT !.op = "change"]
    /\ UNCHANGED <<alive, link, repo, cref, cons, relc, gref, gobj, sel, fetch>>

Next ==
    \/ \E n \in NodeIds, fail \in Fails : ReadGroup(n, fail)
    \/ \E n \in NodeIds, fail \in Fails : ReadCompat(n, fail)
    \/ \E n \in NodeIds, fail \in Fails : ReadGroups(n, fail)
    \/ \E n \in NodeIds, fail \in Fails : ReadDependencies(n, fail)
    \/ \E n \in NodeIds : unlock(n)
    \/ \E n \in NodeIds, name \in Sources, spec \in Ranges, l \in Links, fail \in Fails :
          merge(n, name, spec, l, fail)
    \/ \E n \in NodeIds, name \in Sources, fail \in Fails : unapply(n, name, fail)
    \/ RepoChange

Spec == Init /\ [][Next]_vars

\* the walker also copies nodes; here the repositories answer every call
\* and the merged requirements come from source p2,
\* from the registry or from an unpinned checkout
NextCopy ==
    \/ \E n \in NodeIds : ReadGroup(n, "none")
    \/ \E n \in NodeIds : ReadCompat(n, "none")
    \/ \E n \in NodeIds : unlock(n)
    \/ \E n \in NodeIds, spec \in Ranges, l \in {RegLink, GitLink("s1", "")} :
          merge(n, "p2", spec, l, "none")
    \/ \E n \in NodeIds, name \in Sources : unapply(n, name, "none")
    \/ \E n \in NodeIds : copy(n)

SpecCopy == Init /\ [][NextCopy]_vars

\* the range >=1.0,<2.0 of the worked example: versions 1 to 3
ExampleRange == Range(1, 3)

\* the node for pkgA of the worked example, built from a registry
\* requirement while the registry holds the releases of the example
InitExample ==
    LET a == from_requirement("p1", ExampleRange, RegLink)
    IN /\ alive = {1}
       /\ link = [n \in NodeIds |-> a.link]
       /\ repo = [n \in NodeIds |-> a.repo]
       /\ cref = [n \in NodeIds |-> n]
       /\ cons = [n \in NodeIds |-> IF n = 1 THEN a.constraint
                                     ELSE [s \in Sources |-> NoSpec]]
       /\ relc = [n \in NodeIds |-> NoReleases]
       /\ gref = [n \in NodeIds |-> 0]
       /\ gobj = [n \in NodeIds |-> <<>>]
       /\ sel = [n \in NodeIds |-> Unlocked]
       /\ catalog = [r \in Repos |-> Len(Catalogs)]
       /\ changes = 0
       /\ fetch = NoFetch
       /\ last = NoCall

SpecExample == InitExample /\ [][Next]_vars

\* the dependency lists a release can carry: none, one package, a package
\* named twice, two packages in either order
DepLists == {<<>>, <<pkgB>>, <<pkgB, pkgB>>, <<pkgB, pkgC>>, <<pkgC, pkgB>>}

\* a registry node whose all_releases was read from a repository that
\* delivers every release with its dependency list: any table of releases
InitGroups ==
    \E spec \in Ranges, rel \in [Versions -> {NoRel} \cup {Rel(d, TRUE) : d \in DepLists}] :
        LET a == from_requirement("p1", spec, RegLink)
        IN /\ alive = {1}
           /\ link = [n \in NodeIds |-> a.link]
           /\ repo = [n \in NodeIds |-> a.repo]
           /\ cref = [n \in NodeIds |-> n]
           /\ cons = [n \in NodeIds |-> IF n = 1 THEN a.constraint
                                         ELSE [s \in Sources |-> NoSpec]]
           /\ relc = [n \in NodeIds |-> IF n = 1 THEN [cached |-> TRUE, rel |-> rel]
                                         ELSE NoReleases]
           /\ gref = [n \in NodeIds |-> 0]
           /\ gobj = [n \in NodeIds |-> <<>>]
           /\ sel = [n \in NodeIds |-> Unlocked]
           /\ catalog = [r \in Repos |-> 1]
           /\ changes = 0
           /\ fetch = NoFetch
           /\ last = NoCall

\* the reads that compute and use the groups
NextGroups ==
    \/ \E n \in NodeIds : ReadGroups(n, "none")
    \/ \E n \in NodeIds : ReadGroup(n, "none")
    \/ \E n \in NodeIds : unlock(n)

SpecGroups == InitGroups /\ [][NextGroups]_vars

(* ---------------------------- the fetch, step by step ------------------- *)
\* the releases of node n without a dependency list
Pending(n) == {v \in Versions : relc[n].rel[v].offered /\ ~relc[n].rel[v].known}

\* a node built from any requirement, against any data of the repositories
InitFetch ==
    \E x \in Requirements, k \in DOMAIN Catalogs :
        LET a == from_requirement("p1", x[1], x[2])
        IN /\ alive = {1}
           /\ link = [n \in NodeIds |-> IF n = 1 THEN a.link ELSE RegLink]
           /\ repo = [n \in NodeIds |-> IF n = 1 THEN a.repo ELSE "reg"]
           /\ cref = [n \in NodeIds |-> n]
           /\ cons = [n \in NodeIds |-> IF n = 1 THEN a.constraint
                                         ELSE [s \in Sources |-> NoSpec]]
           /\ relc = [n \in NodeIds |-> NoReleases]
           /\ gref = [n \in NodeIds |-> 0]
           /\ gobj = [n \in NodeIds |-> <<>>]
           /\ sel = [n \in NodeIds |-> Unlocked]
           /\ catalog = [r \in Repos |-> k]
           /\ changes = 0
           /\ fetch = NoFetch
           /\ last = NoCall

\* groups: the coroutine starts and reads all_releases
FetchBegin(n, fail) ==
    /\ n \in alive
    /\ fetch.pc = "idle"
    /\ gref[n] = 0
    /\ fail \in {"none", "list"}
    /\ CanFail(n, fail)
    /\ LET a == AllReleases(n, repo[n], fail)
       IN /\ relc' = [relc EXCEPT ![n] = a.relc]
          /\ IF a.err # ""
             THEN /\ fetch' = fetch
                  /\ last' = [Call("groups", n) EXCEPT !.err = a.err, !.listed = a.listed]
             ELSE /\ fetch' = [NoFetch EXCEPT !.pc = "issue", !.node = n]
                  /\ last' = [Call("fetch", n) EXCEPT !.listed = a.listed]
    /\ UNCHANGED <<alive, link, repo, cref, cons, gref, gobj, sel, catalog, changes>>

\* one turn of the loop over all_releases: ensure_future for the next
\* release without 'dependencies'; after the last release the coroutine
\* goes on to gather
FetchIssue ==
    /\ fetch.pc = "issue"
    /\ LET todo == Pending(fetch.node) \ fetch.issued
       IN IF todo = {}
          THEN fetch' = [fetch EXCEPT !.pc = "gather"]
          ELSE fetch' = [fetch EXCEPT !.issued = @ \cup {Min(todo)}]
    /\ UNCHANGED <<alive, link, repo, cref, cons, relc, gref, gobj, sel, catalog, changes,
                   last>>

\* a get_dependencies task ends, with a response or with an error; tasks
\* run only while the coroutine is suspended in gather
FetchComplete(v, ok) ==
    /\ fetch.pc = "gather"
    /\ fetch.failed = {}
    /\ v \in fetch.issued \ fetch.done
    /\ fetch' = [fetch EXCEPT !.done = @ \cup {v},
                              !.failed = IF ok THEN @ ELSE @ \cup {v}]
    /\ UNCHANGED <<alive, link, repo, cref, cons, relc, gref, gobj, sel, catalog, changes,
                   last>>

\* variant: the coroutine goes on with the first response
Gathered_first(f) == f.done # {}

\* await asyncio.gather(*tasks) returns when every task has its response
Gathered(f) == f.done = f.issued

\* gather raises the error of a task: the read of `groups` ends with it
FetchRaise ==
    /\ fetch.pc = "gather"
    /\ fetch.failed # {}
    /\ fetch' = NoFetch
    /\ last' = [Call("groups", fetch.node) EXCEPT !.err = "FetchError",
                  !.listed = last.listed, !.fetched = fetch.issued,
                  !.failed = fetch.failed]
    /\ UNCHANGED <<alive, link, repo, cref, cons, relc, gref, gobj, sel, catalog, changes>>

\* gather returns; the loop over zip(releases, responses) assigns the lists
FetchAssign ==
    /\ fetch.pc = "gather"
    /\ fetch.failed = {}
    /\ Gathered(fetch)
    /\ relc' = [relc EXCEPT ![fetch.node].rel = [v \in Versions |->
                  IF v \in fetch.done
                  THEN [offered |-> TRUE, known |-> TRUE,
                        deps |-> Catalogs[catalog[repo[fetch.node]]][v].deps]
                  ELSE @[v]]]
    /\ fetch' = [fetch EXCEPT !.pc = "group"]
    /\ UNCHANGED <<alive, link, repo, cref, cons, gref, gobj, sel, catalog, changes, last>>

\* the rest of groups: group, sort, number, filter, cache
FetchGroup ==
    /\ fetch.pc = "group"
    /\ LET n == fetch.node
       IN /\ gref' = [gref EXCEPT ![n] = n]
          /\ gobj' = [gobj EXCEPT ![n] = Actualize(MakeGroups(relc[n].rel), constraint(n))]
          /\ last' = [Call("groups", n) EXCEPT !.listed = last.listed,
                        !.fetched = fetch.issued]
    /\ fetch' = NoFetch
    /\ UNCHANGED <<alive, link, repo, cref, cons, relc, sel, catalog, changes>>

NextFetch ==
    \/ \E n \in NodeIds, fail \in Fails : FetchBegin(n, fail)
    \/ FetchIssue
    \/ \E v \in Versions, ok \in BOOLEAN : FetchComplete(v, ok)
    \/ FetchRaise
    \/ FetchAssign
    \/ FetchGroup

SpecFetch == InitFetch /\ [][NextFetch]_vars

(* ---------------------------- properties ------------------------------- *)
\* the groups of node n as its current constraint filters them
Refiltered(n) == Actualize(groups(n), constraint(n))

Viable(n) == \E i \in DOMAIN groups(n) : Filter(constraint(n), groups(n)[i].all_releases) # {}

\* what the repository of node n would deliver on a fresh fetch
Fresh(n) == Catalogs[catalog[repo[n]]]

\* C1: from the read of `group` that locks a node until the next unlock or
\* unapply on it, the selection and the tuple of groups stay the same object,
\* and every read of `group` returns that selection without an error and
\* without a call to the repository, whatever the repository would answer now.
C1_GroupStable ==
    [][\A n \in NodeIds :
          (locked(n) /\ ~(last'.node = n /\ last'.op \in {"unlock", "unapply"}))
          => /\ sel'[n] = sel[n]
             /\ gref'[n] = gref[n]
             /\ (last'.op = "group" /\ last'.node = n)
                => /\ last'.group = sel[n]
                   /\ last'.err = ""
                   /\ ~last'.listed
                   /\ last'.fetched = {}]_vars

\* a memoized read of a chosen group while the repository offers other
\* releases than the cached ones
C1_Witness ==
    /\ last.op = "group" /\ last.plocked /\ last.group >= 0
    /\ last.group = sel[last.node]
    /\ changes > 0
    /\ Offered(Fresh(last.node)) # Offered(relc[last.node].rel)

\* C2: on a node none of whose groups has a release within the constraint,
\* a read of `compat` returns false and a read of `group` that selects
\* returns no group, and neither raises (the repository answering), in
\* whatever order and however often they are read.
C2_UnsatisfiableIsValue ==
    \A n \in NodeIds :
        (/\ last.node = n /\ last.op \in {"group", "compat"}
         /\ last.err # "FetchError"
         /\ gref[n] # 0 /\ ~Viable(n))
        => /\ last.err = ""
           /\ last.op = "compat" => ~last.compat
           /\ (last.op = "group" /\ ~last.plocked) => last.group = Absent

\* C3: the link checks of merge raise exactly when both links are git links
\* and their pins are both set and differ (different revisions) or else
\* their servers differ (different servers); merge then changes nothing.
C3_LinkConflict ==
    [][\A n \in NodeIds :
          (last'.op = "merge" /\ last'.node = n)
          => LET self == link[n]
                 dep == last'.dlink
                 revs == IsGit(self) /\ IsGit(dep) /\ self.rev # "" /\ dep.rev # ""
                         /\ self.rev # dep.rev
                 servers == IsGit(self) /\ IsGit(dep) /\ self.server # dep.server
             IN /\ revs <=> last'.err = "links point to different revisions"
                /\ (~revs /\ servers) <=> last'.err = "links point to different servers"
                /\ (revs \/ servers)
                   => UNCHANGED <<link, repo, cons, relc, gref, gobj, sel>>]_vars

\* a merge of two pinned git links refused for their revisions
C3_Witness ==
    /\ last.op = "merge"
    /\ last.err = "links point to different revisions"
    /\ last.plink = GitLink("s1", "abc123")
    /\ last.dlink = GitLink("s1", "def456")

\* C4 as stated: after a successful merge or unapply the node is not locked.
C4_MergeUnlocks ==
    [][\A n \in NodeIds :
          (last'.node = n /\ last'.op \in {"merge", "unapply"} /\ last'.err = "")
          => ~locked(n)']_vars

\* C4 amended: after unapply the node is never locked; a successful merge
\* keeps the locked flag and the selection as they were and filters every
\* cached group by the merged constraint.
C4_UnapplyUnlocksMergeKeeps ==
    [][\A n \in NodeIds :
          last'.node = n
          => /\ last'.op = "unapply" => ~locked(n)'
             /\ (last'.op = "merge" /\ last'.err = "")
                => /\ sel'[n] = sel[n]
                   /\ groups(n)' = Refiltered(n)']_vars

\* a merge that left a locked node locked on a group it emptied
C4_Witness ==
    /\ last.op = "merge" /\ last.err = "" /\ last.plocked
    /\ sel[last.node] >= 0
    /\ GroupEmpty(groups(last.node)[sel[last.node] + 1])
    /\ Viable(last.node)

\* C5 as stated: whenever a node is locked, its selection is the first group
\* whose releases pass the current constraint, or no group if none does.
C5_LockedIsFirstViable ==
    \A n \in alive : locked(n) => sel[n] = FirstViable(Refiltered(n))

\* the groups of node n before group i have no release within its constraint
NoneBefore(n, i) ==
    \A j \in 1..(i - 1) : Filter(constraint(n), groups(n)[j].all_releases) = {}

\* C5 amended: the read of `group` that locks a node selects the first group
\* in priority order with a release within the constraint of that moment, or
\* no group if there is none; and `compat` on a node locked on a group tells
\* whether that group, not some group, has a release within the constraint.
C5_SelectionAtLock ==
    [][\A n \in NodeIds :
          last'.node = n
          => /\ (last'.op = "group" /\ last'.err = "" /\ ~locked(n))
                => /\ locked(n)'
                   /\ sel'[n] = last'.group
                   /\ \/ sel'[n] = Absent /\ ~Viable(n)'
                      \/ \E i \in Versions :
                            /\ sel'[n] = i - 1
                            /\ i \in DOMAIN groups(n)'
                            /\ groups(n)'[i].number = i - 1
                            /\ Filter(constraint(n)', groups(n)'[i].all_releases) # {}
                            /\ NoneBefore(n, i)'
             /\ (last'.op = "compat" /\ locked(n) /\ sel[n] >= 0)
                => /\ last'.err = ""
                   /\ last'.compat
                      <=> Filter(constraint(n), groups(n)[sel[n] + 1].all_releases) # {}]_vars

\* a locking read that passed over an emptied newest group
C5_Witness ==
    /\ last.op = "group" /\ ~last.plocked /\ last.err = ""
    /\ sel[last.node] = 1
    /\ GroupEmpty(groups(last.node)[1])

\* C6: unlock on a node that is not locked raises and changes nothing;
\* unlock on a locked node makes it not locked; in both cases the
\* constraint, the repository, the link, the cached releases and the cached
\* groups with their filtered releases stay as they were.
C6_Unlock ==
    [][\A n \in NodeIds :
          (last'.op = "unlock" /\ last'.node = n)
          => /\ UNCHANGED <<link, repo, cref, cons, relc, gref, gobj>>
             /\ locked(n) => (last'.err = "" /\ ~locked(n)')
             /\ ~locked(n) => (last'.err = "KeyError" /\ sel' = sel)]_vars

\* an unlock refused on a node that has groups but no selection
C6_Witness ==
    /\ last.op = "unlock" /\ last.err = "KeyError"
    /\ gref[last.node] # 0 /\ ~locked(last.node)

\* what a node shows of its constraint, its selection and its groups
View(n) ==
    [constraint |-> constraint(n), sel |-> sel[n],
     groups |-> IF gref[n] = 0 THEN <<>> ELSE groups(n)]

\* C7: copy returns a node that is not locked and whose constraint filters
\* as the original's; the original is not changed by copy; afterwards a
\* group read, compat read, merge, unapply or unlock on one node leaves the
\* constraint, the selection and the groups of the other node unchanged.
C7_CopyIndependent ==
    [][\A n \in NodeIds :
          last'.node = n
          => /\ last'.op = "copy"
                => \A c \in NodeIds :
                      last'.other = c
                      => /\ ~locked(c)'
                         /\ \A rels \in SUBSET Versions :
                               Filter(constraint(c)', rels) = Filter(constraint(n), rels)
                         /\ View(n)' = View(n)
                         /\ View(c)' = [View(n) EXCEPT !.sel = Unlocked]
             /\ last'.op \in {"group", "compat", "merge", "unapply", "unlock"}
                => \A m \in alive \ {n} : View(m)' = View(m)]_vars

\* a merge changed the constraint and the groups of the original after the
\* copy was taken from it in the locked state
C7_Witness ==
    /\ alive = {1, 2}
    /\ last.op = "merge" /\ last.err = "" /\ last.node = 1 /\ last.plocked
    /\ constraint(1) # constraint(2)
    /\ gref[2] # 0 /\ groups(1) # groups(2)

\* C8 as stated: a merge of a registry node into an unpinned git node
\* replaces the repository iff the node is not locked.
C8_PreferUnlessLocked ==
    [][\A n \in NodeIds :
          (last'.op = "merge" /\ last'.node = n /\ IsGit(link[n]) /\ ~IsGit(last'.dlink))
          => /\ link'[n] = link[n]
             /\ repo'[n] = IF link[n].rev = "" /\ ~locked(n)
                           THEN get_repo(last'.dlink) ELSE repo[n]]_vars

\* C8 amended: a merge of a registry node into a git node replaces the
\* repository by the registry's iff the git link has no pin and the node has
\* no cached groups yet; otherwise (groups cached, hence also whenever a
\* group is selected, or link pinned) the repository is kept; the link is
\* unchanged either way.
C8_PreferUnlessGroups ==
    [][\A n \in NodeIds :
          (last'.op = "merge" /\ last'.node = n /\ IsGit(link[n]) /\ ~IsGit(last'.dlink))
          => /\ link'[n] = link[n]
             /\ repo'[n] = IF link[n].rev = "" /\ gref[n] = 0
                           THEN get_repo(last'.dlink) ELSE repo[n]
             /\ locked(n) => repo'[n] = repo[n]]_vars

\* an unpinned git node without groups took over the registry's repository
C8_Witness ==
    /\ last.op = "merge" /\ last.err = ""
    /\ last.plink = GitLink("s1", "") /\ ~last.pcached /\ last.prepo = "vcs"
    /\ last.dlink = RegLink
    /\ repo[last.node] = "reg" /\ link[last.node] = last.plink

\* C9 as stated: merge takes over the link and the repository of the other
\* node when self is a registry node and the other an unpinned git node, and
\* leaves the link alone in every other case.
C9_AdoptUnpinnedOnly ==
    [][\A n \in NodeIds :
          (last'.op = "merge" /\ last'.node = n /\ LinkCheck(link[n], last'.dlink) = "")
          => IF ~IsGit(link[n]) /\ IsGit(last'.dlink) /\ last'.dlink.rev = ""
             THEN link'[n] = last'.dlink /\ repo'[n] = get_repo(last'.dlink)
             ELSE link'[n] = link[n]]_vars

\* C9 amended: merge takes over the link and the repository of the other
\* node when self is a registry node and the other a git node, pinned or
\* not, and leaves the link alone in every other case.
C9_AdoptGit ==
    [][\A n \in NodeIds :
          (last'.op = "merge" /\ last'.node = n /\ LinkCheck(link[n], last'.dlink) = "")
          => IF ~IsGit(link[n]) /\ IsGit(last'.dlink)
             THEN link'[n] = last'.dlink /\ repo'[n] = get_repo(last'.dlink)
             ELSE link'[n] = link[n]]_vars

\* a registry node took over a pinned git link and its repository
C9_Witness ==
    /\ last.op = "merge" /\ last.plink = RegLink /\ last.prepo = "reg"
    /\ last.dlink = GitLink("s1", "abc123")
    /\ link[last.node] = last.dlink /\ repo[last.node] = "vcs"

\* C10: a read of `compat` on a node that is not locked leaves it not
\* locked, and when it returns it returns true iff some group has a
\* non-empty filtered release set.
C10_CompatDoesNotLock ==
    [][\A n \in NodeIds :
          (last'.op = "compat" /\ last'.node = n /\ ~locked(n))
          => /\ ~locked(n)'
             /\ last'.err = ""
                => /\ gref'[n] # 0
                   /\ last'.compat
                      <=> \E i \in DOMAIN groups(n)' : groups(n)'[i].releases # {}]_vars

\* compat answered true on a node that it left unlocked
C10_Witness ==
    /\ last.op = "compat" /\ ~last.plocked /\ last.err = "" /\ last.compat
    /\ gref[last.node] # 0 /\ ~locked(last.node)

\* C11: once the groups of a node are cached, no read of groups, group,
\* compat or dependencies and no merge, unapply or unlock replaces or drops
\* them: the tuple stays the same object with the same groups, numbers and
\* all_releases, and the call asks the repository for nothing; once the
\* release list of a node is cached it is not requested again.
C11_GroupsComputedOnce ==
    [][\A n \in NodeIds :
          /\ gref[n] # 0
             => /\ gref'[n] = gref[n]
                /\ DOMAIN groups(n)' = DOMAIN groups(n)
                /\ \A i \in DOMAIN groups(n) :
                      /\ groups(n)'[i].number = groups(n)[i].number
                      /\ groups(n)'[i].all_releases = groups(n)[i].all_releases
                /\ last'.node = n => ~last'.listed /\ last'.fetched = {}
          /\ relc[n].cached
             => /\ relc'[n].cached
                /\ Offered(relc'[n].rel) = Offered(relc[n].rel)
                /\ last'.node = n => ~last'.listed]_vars

\* a merge on a node with cached groups narrowed the filtered releases of a
\* group and asked the repository for nothing
C11_Witness ==
    /\ last.op = "merge" /\ last.pcached /\ last.err = ""
    /\ ~last.listed /\ last.fetched = {}
    /\ gref[last.node] # 0
    /\ \E i \in DOMAIN groups(last.node) :
          /\ groups(last.node)[i].releases # groups(last.node)[i].all_releases
          /\ groups(last.node)[i].releases # {}


\* node 1 holds the groups of the worked example under the range of the
\* example
ExampleNode ==
    /\ gref[1] # 0
    /\ \A v \in Versions :
          relc[1].rel[v] = IF ExampleCatalog[v].offered
                           THEN [ExampleCatalog[v] EXCEPT !.known = TRUE]
                           ELSE ExampleCatalog[v]
    /\ constraint(1) = Constraint("p1", ExampleRange)

\* C12 as stated: the example gives exactly two groups, {1.5, 1.9} and
\* {1.0}, release 2.0 is in no group, and the selected group is {1.5, 1.9}.
C12_ExampleTwoGroups ==
    ExampleNode
    => /\ Len(groups(1)) = 2
       /\ {groups(1)[i].all_releases : i \in DOMAIN groups(1)} = {{2, 3}, {1}}
       /\ \A i \in DOMAIN groups(1) : 4 \notin groups(1)[i].all_releases
       /\ FirstViable(groups(1)) # Absent
       /\ \A i \in DOMAIN groups(1) :
             groups(1)[i].number = FirstViable(groups(1))
             => groups(1)[i].releases = {2, 3}

\* C12 amended: the example gives three groups, {2.0} as number 0,
\* {1.5, 1.9} as number 1 and {1.0} as number 2; the range empties the
\* filtered releases of group 0 and leaves the other two whole, so exactly
\* two groups are viable, and a selecting read of `group` returns
\* {1.5, 1.9}.
C12_ExampleThreeGroups ==
    ExampleNode
    => /\ groups(1) = << [number |-> 0, all_releases |-> {4}, releases |-> {}],
                         [number |-> 1, all_releases |-> {2, 3}, releases |-> {2, 3}],
                         [number |-> 2, all_releases |-> {1}, releases |-> {1}] >>
       /\ Cardinality({i \in DOMAIN groups(1) : ~GroupEmpty(groups(1)[i])}) = 2
       /\ (last.op = "group" /\ last.node = 1 /\ ~last.plocked)
          => last.err = "" /\ last.group = 1 /\ sel[1] = 1

\* the first read of `group` on the node of the example selected a group
C12_Witness ==
    /\ ExampleNode
    /\ last.op = "group" /\ last.node = 1 /\ ~last.plocked /\ ~last.pcached
    /\ last.fetched = {1, 2, 3, 4}
    /\ locked(1)


\* how often package p is named in a dependency list
Count(deps, p) == Cardinality({i \in DOMAIN deps : deps[i] = p})

\* releases v and w of node n are in one group
SameGroup(n, v, w) ==
    \E i \in DOMAIN groups(n) : {v, w} \subseteq groups(n)[i].all_releases

\* every release of all_releases is in exactly one group of node n
Partition(n) ==
    /\ \A i \in DOMAIN groups(n) :
          groups(n)[i].all_releases # {} /\ groups(n)[i].all_releases \subseteq Offered(relc[n].rel)
    /\ \A v \in Offered(relc[n].rel) :
          Cardinality({i \in DOMAIN groups(n) : v \in groups(n)[i].all_releases}) = 1

\* C13 as stated: the groups partition all_releases, and two releases are
\* in one group iff their dependency lists name the same packages, in any
\* order and any number of times.
C13_SameDeduplicated ==
    \A n \in alive :
       gref[n] # 0
       => /\ Partition(n)
          /\ \A v, w \in Offered(relc[n].rel) :
                SameGroup(n, v, w)
                <=> {relc[n].rel[v].deps[i] : i \in DOMAIN relc[n].rel[v].deps}
                    = {relc[n].rel[w].deps[i] : i \in DOMAIN relc[n].rel[w].deps}

\* C13 amended: the groups partition all_releases, and two releases are in
\* one group iff their dependency lists name every package the same number
\* of times, in any order.
C13_SameSorted ==
    \A n \in alive :
       gref[n] # 0
       => /\ Partition(n)
          /\ \A v, w \in Offered(relc[n].rel) :
                SameGroup(n, v, w)
                <=> \A p \in {pkgB, pkgC} :
                       Count(relc[n].rel[v].deps, p) = Count(relc[n].rel[w].deps, p)

\* groups were computed for releases with the lists (pkgB, pkgC) and
\* (pkgC, pkgB), which share a group, and (pkgB) and (pkgB, pkgB), which
\* do not
C13_Witness ==
    /\ gref[1] # 0 /\ last.op = "groups" /\ ~last.pcached
    /\ relc[1].rel[1].deps = <<pkgB, pkgC>> /\ relc[1].rel[2].deps = <<pkgC, pkgB>>
    /\ relc[1].rel[3].deps = <<pkgB>> /\ relc[1].rel[4].deps = <<pkgB, pkgB>>
    /\ SameGroup(1, 1, 2) /\ ~SameGroup(1, 3, 4)
    /\ Len(groups(1)) = 3

\* C14: the numbers of the groups of a node are 0..n-1; a group's number
\* is the count of groups whose newest release is newer than its own, so
\* the numbers follow recency and are fixed by the partition; group 0
\* holds the newest release of the package.
C14_NumbersFollowRecency ==
    \A n \in alive :
       gref[n] # 0
       => LET gs == groups(n)
          IN /\ {gs[i].number : i \in DOMAIN gs} = 0..(Len(gs) - 1)
             /\ \A i \in DOMAIN gs : gs[i].number = i - 1
             /\ \A i, j \in DOMAIN gs :
                   gs[i].number < gs[j].number
                   <=> Max(gs[i].all_releases) > Max(gs[j].all_releases)
             /\ \A i \in DOMAIN gs :
                   gs[i].number
                   = Cardinality({j \in DOMAIN gs :
                                    Max(gs[j].all_releases) > Max(gs[i].all_releases)})
             /\ \A i \in DOMAIN gs :
                   gs[i].number = 0 => Max(Offered(relc[n].rel)) \in gs[i].all_releases

\* groups were computed where the group of the newest release also holds
\* the oldest one, and it is number 0
C14_Witness ==
    /\ gref[1] # 0 /\ last.op = "groups" /\ ~last.pcached
    /\ Len(groups(1)) = 3
    /\ groups(1)[1].number = 0
    /\ {1, MaxVer} \subseteq groups(1)[1].all_releases
    /\ groups(1)[2].number = 1 /\ groups(1)[3].number = 2


\* C15: when a get_dependencies call of a read of groups, group, compat or
\* dependencies fails, the read raises the repository's error, caches no
\* groups, leaves the node unlocked, and leaves every release it asked
\* for, the ones whose call returned included, without a dependency list.
C15_FetchFailureTerminal ==
    [][\A n \in NodeIds :
          (/\ last'.node = n /\ last'.failed # {}
           /\ last'.op \in {"groups", "group", "compat", "dependencies"})
          => /\ last'.err = "FetchError"
             /\ gref'[n] = 0
             /\ ~locked(n)'
             /\ last'.failed \subseteq last'.fetched
             /\ \A v \in last'.fetched :
                   ~relc'[n].rel[v].known /\ relc'[n].rel[v].deps = <<>>]_vars

\* a read asked for two dependency lists, one call failed and one returned
C15_Witness ==
    /\ last.op \in {"groups", "group", "compat", "dependencies"}
    /\ last.err = "FetchError"
    /\ last.failed # {} /\ last.fetched \ last.failed # {}
    /\ gref[last.node] = 0 /\ ~locked(last.node)


\* C16: merge on a node without cached groups, the other node being fresh:
\* an unpinned git node that merges a registry node ends with the registry
\* repository and its own link, a registry node that merges an unpinned git
\* node ends with the git link and the git repository; the two orders of
\* the same pair end on different repositories.
C16_MergeOrderDecidesRepo ==
    [][\A n \in NodeIds :
          (last'.op = "merge" /\ last'.node = n /\ gref[n] = 0)
          => /\ (IsGit(link[n]) /\ link[n].rev = "" /\ ~IsGit(last'.dlink))
                => /\ repo'[n] = "reg"
                   /\ link'[n] = link[n]
             /\ (~IsGit(link[n]) /\ IsGit(last'.dlink) /\ last'.dlink.rev = "")
                => /\ repo'[n] = "vcs"
                   /\ link'[n] = last'.dlink]_vars

\* an unpinned git node on its git repository merged a registry node and
\* now reads from the registry
C16_Witness ==
    /\ last.op = "merge" /\ ~last.pcached /\ last.err = ""
    /\ IsGit(last.plink) /\ last.plink.rev = "" /\ last.prepo = "vcs"
    /\ last.dlink = RegLink
    /\ repo[last.node] = "reg" /\ link[last.node] = last.plink


\* C17 as stated: merge and unapply make no repository call in any state
\* of the node, and a node without cached groups has none afterwards.
C17_MergeUnapplyPure ==
    [][\A n \in NodeIds :
          (last'.op \in {"merge", "unapply"} /\ last'.node = n)
          => /\ ~last'.listed /\ last'.fetched = {}
             /\ gref[n] = 0 => gref'[n] = 0]_vars

\* C17 amended: merge and unapply make no repository call on a node with
\* cached groups. On a node without them, once the link checks and the
\* constraint merge passed, they read `groups`: the release list is
\* requested unless it is cached, the missing dependency lists are
\* fetched, and the node has cached groups afterwards unless that read
\* raised the repository's error.
C17_ForcedGroups ==
    [][\A n \in NodeIds :
          (last'.op \in {"merge", "unapply"} /\ last'.node = n)
          => /\ gref[n] # 0
                => ~last'.listed /\ last'.fetched = {} /\ gref'[n] = gref[n]
             /\ (gref[n] = 0 /\ last'.err \in {"", "FetchError"})
                => /\ last'.listed <=> ~relc[n].cached
                   /\ last'.err = "" <=> gref'[n] # 0
                   /\ last'.err = ""
                      => /\ relc'[n].cached
                         /\ \A v \in Offered(relc'[n].rel) : relc'[n].rel[v].known
                         /\ last'.fetched \subseteq Offered(relc'[n].rel)
             /\ (gref[n] = 0 /\ last'.err \notin {"", "FetchError"})
                => ~last'.listed /\ last'.fetched = {} /\ gref'[n] = 0]_vars

\* unapply on a node without groups listed the releases, fetched
\* dependency lists and left the node with cached groups
C17_Witness ==
    /\ last.op = "unapply" /\ ~last.pcached /\ last.err = ""
    /\ last.listed /\ last.fetched # {}
    /\ gref[last.node] # 0


\* C18: in a read of `groups`, get_dependencies is issued only for
\* releases without a dependency list; while the coroutine waits in gather
\* exactly those releases have a task, so no task ends before all are
\* issued; grouping runs only when every task has ended without an error
\* and no release is left without its list; the cached groups hold every
\* release, each with a dependency list.
C18_BatchedFetch ==
    \A n \in alive :
       /\ (fetch.node = n /\ fetch.pc \in {"issue", "gather"})
          => /\ fetch.issued \subseteq Pending(n)
             /\ fetch.done \subseteq fetch.issued
             /\ fetch.pc = "issue" => fetch.done = {}
             /\ fetch.pc = "gather" => fetch.issued = Pending(n)
       /\ (fetch.node = n /\ fetch.pc = "group")
          => /\ fetch.done = fetch.issued /\ fetch.failed = {}
             /\ Pending(n) = {}
       /\ gref[n] # 0 => Pending(n) = {} /\ Partition(n)

\* the coroutine waits in gather with at least three tasks issued, and
\* every task but the one for the oldest release has ended
C18_Witness ==
    /\ fetch.pc = "gather" /\ fetch.node = 1
    /\ Cardinality(fetch.issued) >= 3
    /\ fetch.done = fetch.issued \ {1}
    /\ fetch.failed = {}


\* C19: on every node with cached groups, each group's `releases` is the
\* node's current constraint applied to the group's all_releases, and the
\* group is viable (not empty) iff that filtered set is non-empty.
C19_FilterConsistent ==
    \A n \in alive :
       gref[n] # 0
       => \A i \in DOMAIN groups(n) :
             /\ groups(n)[i].releases = Filter(constraint(n), groups(n)[i].all_releases)
             /\ ~GroupEmpty(groups(n)[i])
                <=> Filter(constraint(n), groups(n)[i].all_releases) # {}

\* a copy was merged with a requirement that emptied one of its groups and
\* left another one viable, while the groups of the original stayed whole
C19_Witness ==
    /\ alive = {1, 2} /\ gref[1] # 0 /\ gref[2] # 0
    /\ last.op = "merge" /\ last.node = 2 /\ last.err = "" /\ last.pcached
    /\ \E i \in DOMAIN groups(2) : GroupEmpty(groups(2)[i]) /\ ~GroupEmpty(groups(1)[i])
    /\ \E i \in DOMAIN groups(2) : ~GroupEmpty(groups(2)[i])


\* C20: a merge that raises MergeError, from the link checks or from the
\* merge of the two constraints, leaves link, repository, constraint,
\* cached groups and memoized selection of the node as they were.
C20_MergeAtomic ==
    [][\A n \in NodeIds :
          (/\ last'.op = "merge" /\ last'.node = n
           /\ last'.err \in {"MergeError", "links point to different revisions",
                             "links point to different servers"})
          => /\ link'[n] = link[n]
             /\ repo'[n] = repo[n]
             /\ cref'[n] = cref[n] /\ constraint(n)' = constraint(n)
             /\ gref'[n] = gref[n] /\ gobj' = gobj
             /\ sel'[n] = sel[n]]_vars


\* C21: a merge that replaces the repository of a node whose release list
\* or groups are cached obtains them again from the new repository: the
\* release list is requested in that call and the cached releases are the
\* ones the new repository offers.
C21_CachesFollowRepo ==
    [][\A n \in NodeIds :
          (/\ last'.op = "merge" /\ last'.node = n
           /\ repo'[n] # repo[n]
           /\ (relc[n].cached \/ gref[n] # 0))
          => /\ last'.listed
             /\ relc'[n].cached
             /\ Offered(relc'[n].rel) = Offered(Fresh(n)')]_vars

\* C22: a node with a memoized selection has cached groups, and a
\* selected group is one of the groups of that node; this holds for the
\* node copy() returns too.
C22_LockedHasGroups ==
    \A n \in alive :
       locked(n)
       => /\ gref[n] # 0
          /\ sel[n] # Absent
             => Cardinality({i \in DOMAIN groups(n) : groups(n)[i].number = sel[n]}) = 1

\* a locked node was copied: the original is still locked on one of its
\* groups, the copy has groups of its own and no selection
C22_Witness ==
    /\ last.op = "copy" /\ last.plocked
    /\ locked(last.node) /\ sel[last.node] # Absent
    /\ last.other \in alive
    /\ gref[last.other] # 0 /\ gref[last.other] # gref[last.node]
    /\ ~locked(last.other)

====
